---- MODULE Spec2Model ----
(***************************************************************************)
(* The R1CS constraint-system builder of snarkVM's circuit environment     *)
(* (circuit/environment/src/helpers/r1cs.rs) as a state machine.           *)
(*                                                                         *)
(* One instance of R1CS<F> is the record `r1cs`; every method of           *)
(* `impl R1CS` is an operator from the instance (and the arguments) to the *)
(* instance after the call and the value returned, and an action that      *)
(* applies it.  The helper types that r1cs.rs imports (Counter,            *)
(* Constraint, LookupConstraint, Variable, the field F) are modelled from  *)
(* their description in the specification.                                 *)
(*                                                                         *)
(* The second part is the evaluation of the commit instruction             *)
(* (synthesizer/src/process/stack/evaluate/instruction/operation/          *)
(* commit.rs), a specification of its own (CommitSpec).                    *)
(***************************************************************************)
EXTENDS Integers, Sequences, FiniteSets, TLC

VARIABLES
    r1cs,       \* the R1CS<F> instance: the struct's eight fields
    last,       \* the last call made on the instance and what it returned
    calls,      \* the calls made so far: how many new_public and new_private,
                \* the arguments of the enforce calls in order, the same per
                \* open scope (the initial one first) for the calls made while
                \* it was the innermost, and whether push_scope ever succeeded
    opened,     \* per open scope, outermost first: its name, what the queries
                \* returned before its push, what was added in its closed children
    instruction,    \* a commit instruction: operands, destination, VARIANT
    registers,      \* the register file the instruction is evaluated on
    collaborators,  \* whether N::commit_* and registers.store succeed
    evaluated       \* what evaluate returned, and its calls of registers.store

builder == <<r1cs, last, calls, opened>>

machine == <<instruction, registers, collaborators, evaluated>>

vars == <<r1cs, last, calls, opened, instruction, registers, collaborators, evaluated>>

-----------------------------------------------------------------------------
(* Bounds and input sets                                                   *)

\* The stored items (variables, constraints, lookup constraints, tables)
\* plus the open scopes of one run.
MaxSize == 3

\* The field F: the integers modulo a prime.
FieldModulus == 37

Field == 0 .. (FieldModulus - 1)

\* The values handed to new_constant / new_public / new_private.
Values == {5, 7}

\* The coefficients of the terms of the linear combinations handed to enforce.
Coeffs == {0, 1, 35}

\* The scope names handed to push_scope, and those handed to pop_scope.
Names == {"a", "b"}
PopNames == Names \cup {"wrong"}

-----------------------------------------------------------------------------
(* The field F                                                             *)

\* F::one()
One == 1 % FieldModulus

FAdd(x, y) == (x + y) % FieldModulus
FMul(x, y) == (x * y) % FieldModulus

-----------------------------------------------------------------------------
(* Variable<F>: Constant(value), Public(index, value), Private(index,      *)
(* value).  The value sits behind an Rc and is never written again, so a   *)
(* handle carries it.                                                      *)

Constant(value) == [kind |-> "Constant", value |-> value]
Public(index, value) == [kind |-> "Public", index |-> index, value |-> value]
Private(index, value) == [kind |-> "Private", index |-> index, value |-> value]

-----------------------------------------------------------------------------
(* Linear combinations and constraints.  A linear combination is a set of  *)
(* terms <<variable, coefficient>>, no variable twice.                     *)

RECURSIVE LCValue(_)
\* A . x : the sum of coefficient * value over the terms.
LCValue(lc) ==
    IF lc = {} THEN 0
    ELSE LET t == CHOOSE u \in lc : TRUE
         IN  FAdd(FMul(t[2], t[1].value), LCValue(lc \ {t}))

\* The number of terms with a non-zero coefficient.
LCNonzeros(lc) == Cardinality({t \in lc : t[2] % FieldModulus # 0})

\* Constraint::num_nonzeros
constraint_num_nonzeros(constraint) ==
    <<LCNonzeros(constraint.a), LCNonzeros(constraint.b), LCNonzeros(constraint.c)>>

\* Constraint::is_satisfied : (A . x) * (B . x) = (C . x)
constraint_is_satisfied(constraint) ==
    FMul(LCValue(constraint.a), LCValue(constraint.b)) = LCValue(constraint.c)

TripleAdd(s, t) == <<s[1] + t[1], s[2] + t[2], s[3] + t[3]>>

-----------------------------------------------------------------------------
(* Counter<F>: the stack of scope frames.  counter[1] is the initial       *)
(* frame, counter[Len(counter)] the innermost active one.                  *)

Frame(name) ==
    [name               |-> name,
     constants          |-> 0,
     public             |-> 0,
     private            |-> 0,
     constraints        |-> <<>>,
     lookup_constraints |-> <<>>,
     nonzeros           |-> <<0, 0, 0>>]

\* Counter::default
counter_default == <<Frame("")>>

Current(counter) == counter[Len(counter)]

\* Counter::push
counter_push(counter, name) ==
    [counter |-> Append(counter, Frame(name)), ret |-> "Ok"]

\* Counter::pop
counter_pop(counter, name) ==
    IF Len(counter) > 1 /\ Current(counter).name = name
    THEN [counter |-> SubSeq(counter, 1, Len(counter) - 1), ret |-> "Ok"]
    ELSE [counter |-> counter, ret |-> "Err"]

\* Counter::increment_constant / increment_public / increment_private
increment_constant(counter) ==
    [counter EXCEPT ![Len(counter)].constants = @ + 1]
increment_public(counter) ==
    [counter EXCEPT ![Len(counter)].public = @ + 1]
increment_private(counter) ==
    [counter EXCEPT ![Len(counter)].private = @ + 1]

\* Counter::add_constraint
add_constraint(counter, constraint) ==
    [counter EXCEPT ![Len(counter)].constraints = Append(@, constraint),
                    ![Len(counter)].nonzeros = TripleAdd(@, constraint_num_nonzeros(constraint))]

\* Counter::add_lookup_constraint
add_lookup_constraint(counter, constraint) ==
    [counter EXCEPT ![Len(counter)].lookup_constraints = Append(@, constraint),
                    ![Len(counter)].nonzeros = TripleAdd(@, constraint_num_nonzeros(constraint))]

RECURSIVE JoinNames(_, _)
\* The names of frames i .. Len(counter), joined by "/".
JoinNames(counter, i) ==
    IF i > Len(counter) THEN ""
    ELSE IF i = Len(counter) THEN counter[i].name
    ELSE counter[i].name \o "/" \o JoinNames(counter, i + 1)

\* Counter::scope
counter_scope(counter) == JoinNames(counter, 2)

\* Counter::is_satisfied_in_scope
counter_is_satisfied_in_scope(counter) ==
    \A i \in 1 .. Len(Current(counter).constraints) :
        constraint_is_satisfied(Current(counter).constraints[i])

-----------------------------------------------------------------------------
(* impl R1CS                                                               *)

\* new with F::zero() as the value of the implicit public variable.
new_zero ==
    [constants          |-> <<>>,
     public             |-> <<Public(0, 0)>>,
     private            |-> <<>>,
     constraints        |-> <<>>,
     lookup_constraints |-> <<>>,
     counter            |-> counter_default,
     tables             |-> <<>>,
     nonzeros           |-> <<0, 0, 0>>]

\* new counting the implicit public variable in the initial frame, as a
\* constructor that called new_public would.
new_counted ==
    [constants          |-> <<>>,
     public             |-> <<Public(0, One)>>,
     private            |-> <<>>,
     constraints        |-> <<>>,
     lookup_constraints |-> <<>>,
     counter            |-> increment_public(counter_default),
     tables             |-> <<>>,
     nonzeros           |-> <<0, 0, 0>>]

\* R1CS::new
new ==
    [constants          |-> <<>>,
     public             |-> <<Public(0, One)>>,
     private            |-> <<>>,
     constraints        |-> <<>>,
     lookup_constraints |-> <<>>,
     counter            |-> counter_default,
     tables             |-> <<>>,
     nonzeros           |-> <<0, 0, 0>>]

\* R1CS::add_lookup_table
add_lookup_table(sys, table) ==
    [sys |-> [sys EXCEPT !.tables = Append(@, table)], ret |-> "Unit"]

\* push_scope calling the counter's pop, as the method below it does.
push_scope_swapped(sys, name) ==
    LET r == counter_pop(sys.counter, name)
    IN  [sys |-> [sys EXCEPT !.counter = r.counter], ret |-> r.ret]

\* R1CS::push_scope
push_scope(sys, name) ==
    LET r == counter_push(sys.counter, name)
    IN  [sys |-> [sys EXCEPT !.counter = r.counter], ret |-> r.ret]

\* pop_scope that leaves whatever scope is innermost, not looking at `name`.
pop_scope_any(sys, name) ==
    LET r == counter_pop(sys.counter, Current(sys.counter).name)
    IN  [sys |-> [sys EXCEPT !.counter = r.counter], ret |-> r.ret]

\* pop_scope that adds the closed frame's tallies to its parent's.
pop_scope_folding(sys, name) ==
    LET r == counter_pop(sys.counter, name)
        child == Current(sys.counter)
        n == Len(r.counter)
    IN  IF r.ret = "Ok"
        THEN [sys |-> [sys EXCEPT !.counter =
                        [r.counter EXCEPT
                            ![n].constants = @ + child.constants,
                            ![n].public = @ + child.public,
                            ![n].private = @ + child.private,
                            ![n].constraints = @ \o child.constraints,
                            ![n].lookup_constraints = @ \o child.lookup_constraints,
                            ![n].nonzeros = TripleAdd(@, child.nonzeros)]],
              ret |-> r.ret]
        ELSE [sys |-> sys, ret |-> r.ret]

\* R1CS::pop_scope
pop_scope(sys, name) ==
    LET r == counter_pop(sys.counter, name)
    IN  [sys |-> [sys EXCEPT !.counter = r.counter], ret |-> r.ret]

\* new_constant counting the constant as a private variable in the counter.
new_constant_miscounted(sys, value) ==
    LET variable == Constant(value)
    IN  [sys |-> [sys EXCEPT !.constants = Append(@, variable),
                             !.counter = increment_private(@)],
         ret |-> variable]

\* R1CS::new_constant
new_constant(sys, value) ==
    LET variable == Constant(value)
    IN  [sys |-> [sys EXCEPT !.constants = Append(@, variable),
                             !.counter = increment_constant(@)],
         ret |-> variable]

\* new_public taking the index from the private sequence's length.
new_public_crossed(sys, value) ==
    LET variable == Public(Len(sys.private), value)
    IN  [sys |-> [sys EXCEPT !.public = Append(@, variable),
                             !.counter = increment_public(@)],
         ret |-> variable]

\* R1CS::new_public
new_public(sys, value) ==
    LET variable == Public(Len(sys.public), value)
    IN  [sys |-> [sys EXCEPT !.public = Append(@, variable),
                             !.counter = increment_public(@)],
         ret |-> variable]

\* new_private taking the index from the public sequence's length.
new_private_crossed(sys, value) ==
    LET variable == Private(Len(sys.public), value)
    IN  [sys |-> [sys EXCEPT !.private = Append(@, variable),
                             !.counter = increment_private(@)],
         ret |-> variable]

\* R1CS::new_private
new_private(sys, value) ==
    LET variable == Private(Len(sys.private), value)
    IN  [sys |-> [sys EXCEPT !.private = Append(@, variable),
                             !.counter = increment_private(@)],
         ret |-> variable]

\* enforce with the C count added to the second component of the triple.
enforce_slip(sys, constraint) ==
    LET n == constraint_num_nonzeros(constraint)
    IN  [sys |-> [sys EXCEPT !.nonzeros = <<@[1] + n[1], @[2] + n[3], @[3] + n[3]>>,
                             !.constraints = Append(@, constraint),
                             !.counter = add_constraint(@, constraint)],
         ret |-> "Unit"]

\* enforce that does not forward the constraint to the counter.
enforce_unscoped(sys, constraint) ==
    [sys |-> [sys EXCEPT !.nonzeros = TripleAdd(@, constraint_num_nonzeros(constraint)),
                         !.constraints = Append(@, constraint)],
     ret |-> "Unit"]

\* enforce putting the constraint first in the sequence, not last.
enforce_prepending(sys, constraint) ==
    [sys |-> [sys EXCEPT !.nonzeros = TripleAdd(@, constraint_num_nonzeros(constraint)),
                         !.constraints = <<constraint>> \o @,
                         !.counter = add_constraint(@, constraint)],
     ret |-> "Unit"]

\* enforce that does not keep the constraint in self.constraints.
enforce_forgetful(sys, constraint) ==
    [sys |-> [sys EXCEPT !.nonzeros = TripleAdd(@, constraint_num_nonzeros(constraint)),
                         !.counter = add_constraint(@, constraint)],
     ret |-> "Unit"]

\* R1CS::enforce
enforce(sys, constraint) ==
    [sys |-> [sys EXCEPT !.nonzeros = TripleAdd(@, constraint_num_nonzeros(constraint)),
                         !.constraints = Append(@, constraint),
                         !.counter = add_constraint(@, constraint)],
     ret |-> "Unit"]

\* enforce_lookup storing the constraint as enforce does: among the
\* plain constraints.
enforce_lookup_as_plain(sys, constraint) ==
    [sys |-> [sys EXCEPT !.nonzeros = TripleAdd(@, constraint_num_nonzeros(constraint)),
                         !.constraints = Append(@, constraint),
                         !.counter = add_constraint(@, constraint)],
     ret |-> "Unit"]

\* enforce_lookup that leaves self.nonzeros to the plain constraints.
enforce_lookup_separate(sys, constraint) ==
    [sys |-> [sys EXCEPT !.lookup_constraints = Append(@, constraint),
                         !.counter = add_lookup_constraint(@, constraint)],
     ret |-> "Unit"]

\* R1CS::enforce_lookup
enforce_lookup(sys, constraint) ==
    [sys |-> [sys EXCEPT !.nonzeros = TripleAdd(@, constraint_num_nonzeros(constraint)),
                         !.lookup_constraints = Append(@, constraint),
                         !.counter = add_lookup_constraint(@, constraint)],
     ret |-> "Unit"]

\* is_satisfied asking the counter, as is_satisfied_in_scope does.
is_satisfied_scoped(sys) == counter_is_satisfied_in_scope(sys.counter)

\* is_satisfied with `any` for `all`.
is_satisfied_any(sys) ==
    \E i \in 1 .. Len(sys.constraints) : constraint_is_satisfied(sys.constraints[i])

\* R1CS::is_satisfied
is_satisfied(sys) ==
    \A i \in 1 .. Len(sys.constraints) : constraint_is_satisfied(sys.constraints[i])

\* is_satisfied_in_scope asking for the whole system, as is_satisfied does.
is_satisfied_in_scope_global(sys) ==
    \A i \in 1 .. Len(sys.constraints) : constraint_is_satisfied(sys.constraints[i])

\* R1CS::is_satisfied_in_scope
is_satisfied_in_scope(sys) == counter_is_satisfied_in_scope(sys.counter)

\* R1CS::scope
scope(sys) == counter_scope(sys.counter)

\* R1CS::num_constants .. R1CS::num_nonzeros
num_constants(sys) == Len(sys.constants)
num_public(sys) == Len(sys.public)
num_private(sys) == Len(sys.private)
num_constraints(sys) == Len(sys.constraints)
num_lookup_constraints(sys) == Len(sys.lookup_constraints)
num_nonzeros(sys) == sys.nonzeros

\* R1CS::num_constants_in_scope .. R1CS::num_nonzeros_in_scope
num_constants_in_scope(sys) == Current(sys.counter).constants
num_public_in_scope(sys) == Current(sys.counter).public
num_private_in_scope(sys) == Current(sys.counter).private
num_constraints_in_scope(sys) == Len(Current(sys.counter).constraints)
num_lookup_constraints_in_scope(sys) == Len(Current(sys.counter).lookup_constraints)
num_nonzeros_in_scope(sys) == Current(sys.counter).nonzeros

\* R1CS::to_public_variables .. R1CS::to_lookup_constraints
to_public_variables(sys) == sys.public
to_private_variables(sys) == sys.private
to_constraints(sys) == sys.constraints
to_lookup_constraints(sys) == sys.lookup_constraints

-----------------------------------------------------------------------------
(* What a caller can observe of an instance through its queries.           *)

Observed(sys) ==
    [scope                          |-> scope(sys),
     num_constants                  |-> num_constants(sys),
     num_public                     |-> num_public(sys),
     num_private                    |-> num_private(sys),
     num_constraints                |-> num_constraints(sys),
     num_lookup_constraints        |-> num_lookup_constraints(sys),
     num_nonzeros                   |-> num_nonzeros(sys),
     num_constants_in_scope         |-> num_constants_in_scope(sys),
     num_public_in_scope            |-> num_public_in_scope(sys),
     num_private_in_scope           |-> num_private_in_scope(sys),
     num_constraints_in_scope       |-> num_constraints_in_scope(sys),
     num_lookup_constraints_in_scope |-> num_lookup_constraints_in_scope(sys),
     num_nonzeros_in_scope          |-> num_nonzeros_in_scope(sys),
     is_satisfied_in_scope          |-> is_satisfied_in_scope(sys)]

-----------------------------------------------------------------------------
(* The arguments the callers hand in.                                      *)

Range(s) == {s[i] : i \in 1 .. Len(s)}

\* The handles the instance has given out (and the implicit one).
Variables(sys) == Range(sys.constants) \cup Range(sys.public) \cup Range(sys.private)

\* x * y = k * one
Product(sys, x, y, k) ==
    [a |-> {<<x, 1>>}, b |-> {<<y, 1>>}, c |-> {<<sys.public[1], k>>}]

\* x * (0 * x) = 0
Annihilated(x) == [a |-> {<<x, 1>>}, b |-> {<<x, 0>>}, c |-> {}]

\* (one + x) * one = one + x
Shifted(sys, x) ==
    [a |-> {<<sys.public[1], 1>>, <<x, 1>>},
     b |-> {<<sys.public[1], 1>>},
     c |-> {<<sys.public[1], 1>>, <<x, 1>>}]

\* k * one = x
Bound(sys, k, x) ==
    [a |-> {<<k, 1>>}, b |-> {<<sys.public[1], 1>>}, c |-> {<<x, 1>>}]

\* The constraints handed to enforce: over the handles given out so far.
ConstraintInputs(sys) ==
    {Product(sys, x, y, k) : x \in Range(sys.public),
                             y \in Range(sys.private) \cup {sys.public[1]},
                             k \in Coeffs \ {0}}
    \cup {Annihilated(x) : x \in Range(sys.private) \cup Range(sys.constants)}
    \cup {Shifted(sys, x) : x \in Range(sys.private)}
    \cup {Bound(sys, k, x) : k \in Range(sys.constants), x \in Range(sys.private)}

\* The lookup tables handed to add_lookup_table: sets of rows.
TableInputs == {{<<5, 7, 35>>}}

\* The lookup constraints handed to enforce_lookup: (x, one, 0 * x) in table 0.
LookupInputs(sys) ==
    {[a |-> {<<x, 1>>}, b |-> {<<sys.public[1], 1>>}, c |-> {<<x, 0>>}, table |-> 0] :
        x \in Range(sys.private) \cup {sys.public[1]}}

\* The stored items of an instance plus its open scopes.
Size(sys) ==
    Len(sys.constants) + (Len(sys.public) - 1) + Len(sys.private)
    + Len(sys.constraints) + Len(sys.lookup_constraints) + Len(sys.tables)
    + (Len(sys.counter) - 1)

-----------------------------------------------------------------------------
(* The state machine: one action per method that changes the instance.     *)

Created ==
    /\ r1cs = new
    /\ last = [op |-> "new", arg |-> "", ret |-> "Unit"]
    /\ calls = [new_public |-> 0, new_private |-> 0, enforce |-> <<>>,
                scoped |-> <<(<<>>)>>, pushed |-> FALSE]
    /\ opened = <<>>

\* No instruction is being evaluated while the system is built.
Idle ==
    /\ instruction = [operands |-> <<>>, destination |-> "r2", variant |-> 0]
    /\ registers = [r \in {"r0", "r1", "r2"} |->
                       [value |-> "Undefined", plaintext |-> "", literal |-> "", by |-> ""]]
    /\ collaborators = [commit |-> TRUE, store |-> TRUE]
    /\ evaluated = [ret |-> "Pending", stores |-> <<>>]

Init ==
    /\ Created
    /\ Idle

\* The global counts a caller reads.
Totals(sys) ==
    [num_constants          |-> num_constants(sys),
     num_public             |-> num_public(sys),
     num_private            |-> num_private(sys),
     num_constraints        |-> num_constraints(sys),
     num_lookup_constraints |-> num_lookup_constraints(sys),
     num_nonzeros           |-> num_nonzeros(sys)]

NoTotals ==
    [num_constants          |-> 0,
     num_public             |-> 0,
     num_private            |-> 0,
     num_constraints        |-> 0,
     num_lookup_constraints |-> 0,
     num_nonzeros           |-> <<0, 0, 0>>]

TotalsPlus(s, t) ==
    [num_constants          |-> s.num_constants + t.num_constants,
     num_public             |-> s.num_public + t.num_public,
     num_private            |-> s.num_private + t.num_private,
     num_constraints        |-> s.num_constraints + t.num_constraints,
     num_lookup_constraints |-> s.num_lookup_constraints + t.num_lookup_constraints,
     num_nonzeros           |-> TripleAdd(s.num_nonzeros, t.num_nonzeros)]

TotalsMinus(s, t) ==
    [num_constants          |-> s.num_constants - t.num_constants,
     num_public             |-> s.num_public - t.num_public,
     num_private            |-> s.num_private - t.num_private,
     num_constraints        |-> s.num_constraints - t.num_constraints,
     num_lookup_constraints |-> s.num_lookup_constraints - t.num_lookup_constraints,
     num_nonzeros           |-> <<s.num_nonzeros[1] - t.num_nonzeros[1],
                                  s.num_nonzeros[2] - t.num_nonzeros[2],
                                  s.num_nonzeros[3] - t.num_nonzeros[3]>>]

\* What the caller notes when push_scope(name) has returned Ok on `sys`.
Opening(sys, name) ==
    [name |-> name, before |-> Observed(sys), inner |-> NoTotals, nested |-> FALSE]

\* What the caller notes when pop_scope has returned Ok on `sys`: the scope
\* is closed, and what was added while it was open counts as added in a
\* closed child of its parent.
NoteClose(o, sys) ==
    IF Len(o) <= 1 THEN <<>>
    ELSE LET child == o[Len(o)]
             added == TotalsMinus(Totals(sys), [f \in DOMAIN NoTotals |-> child.before[f]])
         IN  [SubSeq(o, 1, Len(o) - 1) EXCEPT ![Len(o) - 1].nested = TRUE,
                                              ![Len(o) - 1].inner = TotalsPlus(@, added)]

AddLookupTable(table) ==
    /\ UNCHANGED machine
    /\ Size(r1cs) < MaxSize
    /\ LET r == add_lookup_table(r1cs, table)
       IN  /\ r1cs' = r.sys
           /\ last' = [op |-> "add_lookup_table", arg |-> table, ret |-> r.ret]
    /\ UNCHANGED <<calls, opened>>

PushScope(name) ==
    /\ UNCHANGED machine
    /\ Size(r1cs) < MaxSize
    /\ LET r == push_scope(r1cs, name)
       IN  /\ r1cs' = r.sys
           /\ last' = [op |-> "push_scope", arg |-> name, ret |-> r.ret]
           /\ opened' = IF r.ret = "Ok" THEN Append(opened, Opening(r1cs, name)) ELSE opened
           /\ calls' = IF r.ret = "Ok"
                       THEN [calls EXCEPT !.scoped = Append(@, <<>>), !.pushed = TRUE]
                       ELSE calls

PopScope(name) ==
    /\ UNCHANGED machine
    /\ LET r == pop_scope(r1cs, name)
       IN  /\ r1cs' = r.sys
           /\ last' = [op |-> "pop_scope", arg |-> name, ret |-> r.ret]
           /\ opened' = IF r.ret = "Ok" THEN NoteClose(opened, r1cs) ELSE opened
           /\ calls' = IF r.ret = "Ok" /\ Len(calls.scoped) > 1
                       THEN [calls EXCEPT !.scoped = SubSeq(@, 1, Len(@) - 1)]
                       ELSE calls

NewConstant(value) ==
    /\ UNCHANGED machine
    /\ Size(r1cs) < MaxSize
    /\ LET r == new_constant(r1cs, value)
       IN  /\ r1cs' = r.sys
           /\ last' = [op |-> "new_constant", arg |-> value, ret |-> r.ret]
    /\ UNCHANGED <<calls, opened>>

NewPublic(value) ==
    /\ UNCHANGED machine
    /\ Size(r1cs) < MaxSize
    /\ LET r == new_public(r1cs, value)
       IN  /\ r1cs' = r.sys
           /\ last' = [op |-> "new_public", arg |-> value, ret |-> r.ret]
    /\ calls' = [calls EXCEPT !.new_public = @ + 1]
    /\ UNCHANGED opened

NewPrivate(value) ==
    /\ UNCHANGED machine
    /\ Size(r1cs) < MaxSize
    /\ LET r == new_private(r1cs, value)
       IN  /\ r1cs' = r.sys
           /\ last' = [op |-> "new_private", arg |-> value, ret |-> r.ret]
    /\ calls' = [calls EXCEPT !.new_private = @ + 1]
    /\ UNCHANGED opened

Enforce(constraint) ==
    /\ UNCHANGED machine
    /\ Size(r1cs) < MaxSize
    /\ LET r == enforce(r1cs, constraint)
       IN  /\ r1cs' = r.sys
           /\ last' = [op |-> "enforce", arg |-> constraint, ret |-> r.ret]
    /\ calls' = [calls EXCEPT !.enforce = Append(@, constraint),
                              !.scoped[Len(calls.scoped)] = Append(@, constraint)]
    /\ UNCHANGED opened

EnforceLookup(constraint) ==
    /\ UNCHANGED machine
    /\ Size(r1cs) < MaxSize
    /\ LET r == enforce_lookup(r1cs, constraint)
       IN  /\ r1cs' = r.sys
           /\ last' = [op |-> "enforce_lookup", arg |-> constraint, ret |-> r.ret]
    /\ UNCHANGED <<calls, opened>>

Next ==
    \/ \E table \in TableInputs : AddLookupTable(table)
    \/ \E name \in Names : PushScope(name)
    \/ \E name \in PopNames : PopScope(name)
    \/ \E value \in Values : NewConstant(value)
    \/ \E value \in Values : NewPublic(value)
    \/ \E value \in Values : NewPrivate(value)
    \/ \E constraint \in ConstraintInputs(r1cs) : Enforce(constraint)
    \/ \E constraint \in LookupInputs(r1cs) : EnforceLookup(constraint)

Spec == Init /\ [][Next]_vars

-----------------------------------------------------------------------------
(* The commit instruction: Stack::evaluate of commit.rs.                    *)
(* A value is Value::Plaintext(Plaintext::Literal(literal)),                *)
(* Value::Plaintext(Plaintext::Struct), Value::Record, or no value at all   *)
(* for a register that was never written; `by` names the commit function    *)
(* a committed literal came from.                                           *)

\* The longest operand list of an instruction.
MaxOperands == 3

\* The largest VARIANT an instruction is instantiated with.
MaxVariant == 7

Undefined == [value |-> "Undefined", plaintext |-> "", literal |-> "", by |-> ""]

Literal(type, by) == [value |-> "Plaintext", plaintext |-> "Literal", literal |-> type, by |-> by]

Struct == [value |-> "Plaintext", plaintext |-> "Struct", literal |-> "", by |-> ""]

Record == [value |-> "Record", plaintext |-> "", literal |-> "", by |-> ""]

OperandRegisters == {"r0", "r1"}

Destination == "r2"

\* What a register holds before the instruction.
RegisterValues == {Undefined, Literal("Scalar", ""), Literal("Field", ""), Struct, Record}

Operands == UNION {[1 .. n -> OperandRegisters] : n \in 0 .. MaxOperands}

\* registers.load(stack, operand): the value of the register, an error for
\* a register that holds none.
load(regs, operand) ==
    IF regs[operand] = Undefined
    THEN [ret |-> "Err", value |-> Undefined]
    ELSE [ret |-> "Ok", value |-> regs[operand]]

\* N::commit_bhp256 .. N::commit_ped128 on the input's bits and the
\* randomizer: a literal of the named type, or the function's error.
commit(by, type, succeeds) ==
    IF succeeds
    THEN [ret |-> "Ok", value |-> Literal(type, by)]
    ELSE [ret |-> "Err", value |-> Undefined]

\* registers.store(stack, destination, value): the register is written, or
\* the store's error is returned and nothing is written.
store(regs, destination, value, succeeds) ==
    IF succeeds
    THEN [ret |-> "Ok", registers |-> [regs EXCEPT ![destination] = value]]
    ELSE [ret |-> "Err", registers |-> regs]

\* bail!, or an error passed on by `?`: nothing was stored.
Bail(regs) == [ret |-> "Err", registers |-> regs, stores |-> <<>>]

\* evaluate with `_ =>` taken for a Pedersen commitment instead of bail!.
evaluate_any_variant(self, regs, env) ==
    IF Len(self.operands) # 2 THEN Bail(regs)
    ELSE
    LET input      == load(regs, self.operands[1])
        randomizer == load(regs, self.operands[2])
    IN  IF input.ret = "Err" THEN Bail(regs)
        ELSE IF randomizer.ret = "Err" THEN Bail(regs)
        ELSE IF ~(/\ randomizer.value.value = "Plaintext"
                  /\ randomizer.value.plaintext = "Literal"
                  /\ randomizer.value.literal = "Scalar") THEN Bail(regs)
        ELSE
        LET output ==
                CASE self.variant = 0 -> commit("commit_bhp256", "Field", env.commit)
                  [] self.variant = 1 -> commit("commit_bhp512", "Field", env.commit)
                  [] self.variant = 2 -> commit("commit_bhp768", "Field", env.commit)
                  [] self.variant = 3 -> commit("commit_bhp1024", "Field", env.commit)
                  [] self.variant = 4 -> commit("commit_ped64", "Group", env.commit)
                  [] OTHER            -> commit("commit_ped128", "Group", env.commit)
        IN  IF output.ret = "Err" THEN Bail(regs)
            ELSE LET stored == store(regs, self.destination, output.value, env.store)
                 IN  [ret       |-> stored.ret,
                      registers |-> stored.registers,
                      stores    |-> <<[register |-> self.destination,
                                       value    |-> output.value]>>]

\* Stack::evaluate of the commit instruction
evaluate(self, regs, env) ==
    IF Len(self.operands) # 2 THEN Bail(regs)
    ELSE
    LET input      == load(regs, self.operands[1])
        randomizer == load(regs, self.operands[2])
    IN  IF input.ret = "Err" THEN Bail(regs)
        ELSE IF randomizer.ret = "Err" THEN Bail(regs)
        ELSE IF ~(/\ randomizer.value.value = "Plaintext"
                  /\ randomizer.value.plaintext = "Literal"
                  /\ randomizer.value.literal = "Scalar") THEN Bail(regs)
        ELSE
        LET output ==
                CASE self.variant = 0 -> commit("commit_bhp256", "Field", env.commit)
                  [] self.variant = 1 -> commit("commit_bhp512", "Field", env.commit)
                  [] self.variant = 2 -> commit("commit_bhp768", "Field", env.commit)
                  [] self.variant = 3 -> commit("commit_bhp1024", "Field", env.commit)
                  [] self.variant = 4 -> commit("commit_ped64", "Group", env.commit)
                  [] self.variant = 5 -> commit("commit_ped128", "Group", env.commit)
                  [] OTHER            -> [ret |-> "Err", value |-> Undefined]
        IN  IF output.ret = "Err" THEN Bail(regs)
            ELSE LET stored == store(regs, self.destination, output.value, env.store)
                 IN  [ret       |-> stored.ret,
                      registers |-> stored.registers,
                      stores    |-> <<[register |-> self.destination,
                                       value    |-> output.value]>>]

\* An instruction of any operand count and variant, on any register file,
\* with commit functions and a store that succeed or fail.
CommitInit ==
    /\ Created
    /\ instruction \in [operands : Operands, destination : {Destination},
                        variant : 0 .. MaxVariant]
    /\ registers \in {[r \in OperandRegisters \cup {Destination} |->
                          IF r = Destination THEN Undefined ELSE f[r]] :
                      f \in [OperandRegisters -> RegisterValues]}
    /\ collaborators \in [commit : BOOLEAN, store : BOOLEAN]
    /\ evaluated = [ret |-> "Pending", stores |-> <<>>]

Evaluate ==
    /\ evaluated.ret = "Pending"
    /\ LET r == evaluate(instruction, registers, collaborators)
       IN  /\ registers' = r.registers
           /\ evaluated' = [ret |-> r.ret, stores |-> r.stores]
    /\ UNCHANGED <<instruction, collaborators>>
    /\ UNCHANGED builder

CommitNext == Evaluate

CommitSpec == CommitInit /\ [][CommitNext]_vars

-----------------------------------------------------------------------------
(* The same system under another witness: the handle `variable` carries     *)
(* `value` wherever it is held (the variable sequences, the terms of the    *)
(* constraints and lookup constraints, the frames' records).                *)

Rebound(handle, variable, value) ==
    IF handle = variable THEN [handle EXCEPT !.value = value] ELSE handle

ReboundLC(lc, variable, value) ==
    {<<Rebound(t[1], variable, value), t[2]>> : t \in lc}

ReboundConstraint(constraint, variable, value) ==
    [constraint EXCEPT !.a = ReboundLC(@, variable, value),
                       !.b = ReboundLC(@, variable, value),
                       !.c = ReboundLC(@, variable, value)]

ReboundAll(seq, variable, value) ==
    [i \in 1 .. Len(seq) |-> ReboundConstraint(seq[i], variable, value)]

WithValue(sys, variable, value) ==
    [sys EXCEPT
        !.public = [i \in 1 .. Len(@) |-> Rebound(@[i], variable, value)],
        !.private = [i \in 1 .. Len(@) |-> Rebound(@[i], variable, value)],
        !.constraints = ReboundAll(@, variable, value),
        !.lookup_constraints = ReboundAll(@, variable, value),
        !.counter = [i \in 1 .. Len(@) |->
            [@[i] EXCEPT !.constraints = ReboundAll(@, variable, value),
                         !.lookup_constraints = ReboundAll(@, variable, value)]]]

\* The allocated variables whose value the caller chose: every public one
\* but the implicit one, and every private one.
Assigned(sys) == (Range(sys.public) \ {sys.public[1]}) \cup Range(sys.private)

\* The coefficient `variable` has in the linear combination (0 when absent).
Coefficient(lc, variable) ==
    IF \E t \in lc : t[1] = variable
    THEN (CHOOSE t \in lc : t[1] = variable)[2] % FieldModulus
    ELSE 0

\* `variable` has a non-zero coefficient in some enforced constraint.
Referenced(sys, variable) ==
    \E i \in 1 .. Len(sys.constraints) :
        \E lc \in {sys.constraints[i].a, sys.constraints[i].b, sys.constraints[i].c} :
            Coefficient(lc, variable) # 0

\* In the constraint, `variable` has a non-zero coefficient in exactly one
\* of A, B, C, and when that is A (or B) the other factor B.x (or A.x) is
\* not zero: the new value changes one side of the equation only.
Decisive(constraint, variable) ==
    LET ka == Coefficient(constraint.a, variable)
        kb == Coefficient(constraint.b, variable)
        kc == Coefficient(constraint.c, variable)
    IN  \/ ka # 0 /\ kb = 0 /\ kc = 0 /\ LCValue(constraint.b) # 0
        \/ ka = 0 /\ kb # 0 /\ kc = 0 /\ LCValue(constraint.a) # 0
        \/ ka = 0 /\ kb = 0 /\ kc # 0

-----------------------------------------------------------------------------
(* Claims                                                                  *)

\* C1: one call enforce(c) increases num_constraints() by exactly 1 and
\* num_nonzeros() component-wise by exactly c.num_nonzeros(), appends c at
\* the end of the constraint sequence, and leaves num_constants(),
\* num_public(), num_private() and num_lookup_constraints() unchanged.
C1_EnforceStep ==
    last'.op = "enforce" =>
        /\ num_constraints(r1cs') = num_constraints(r1cs) + 1
        /\ num_nonzeros(r1cs') = TripleAdd(num_nonzeros(r1cs), constraint_num_nonzeros(last'.arg))
        /\ to_constraints(r1cs') = Append(to_constraints(r1cs), last'.arg)
        /\ num_constants(r1cs') = num_constants(r1cs)
        /\ num_public(r1cs') = num_public(r1cs)
        /\ num_private(r1cs') = num_private(r1cs)
        /\ num_lookup_constraints(r1cs') = num_lookup_constraints(r1cs)

C1_Enforce == [][C1_EnforceStep]_vars

\* A second enforce has just returned, of a constraint with two non-zero
\* terms in A, on a system that already held non-zero terms.
C1_Witness ==
    /\ last.op = "enforce"
    /\ num_constraints(r1cs) = 2
    /\ constraint_num_nonzeros(last.arg)[1] = 2
    /\ num_nonzeros(r1cs)[1] = 3

\* C2: is_satisfied() is true exactly when every constraint handed to
\* enforce so far (in whatever scope, open or closed) satisfies
\* (A.x)(B.x) = (C.x); lookup constraints and tables play no part, and
\* with no enforce call so far it is true.
C2_IsSatisfied ==
    /\ is_satisfied(r1cs) <=>
           \A i \in 1 .. Len(calls.enforce) : constraint_is_satisfied(calls.enforce[i])
    /\ calls.enforce = <<>> => is_satisfied(r1cs)

\* A satisfied and an unsatisfied constraint were enforced, the satisfied
\* one in a scope since closed, and a lookup constraint is held as well.
C2_Witness ==
    /\ Len(calls.enforce) = 2
    /\ constraint_is_satisfied(calls.enforce[1])
    /\ ~constraint_is_satisfied(calls.enforce[2])
    /\ ~is_satisfied(r1cs)
    /\ num_constraints_in_scope(r1cs) = 1
    /\ Len(r1cs.counter) = 1
    /\ num_lookup_constraints(r1cs) = 1

\* C3 as stated: in a satisfied system, another value for any one assigned
\* variable that some enforced constraint references with a non-zero
\* coefficient makes is_satisfied() false.
C3_Original ==
    is_satisfied(r1cs) =>
        \A variable \in Assigned(r1cs) :
            Referenced(r1cs, variable) =>
                \A value \in Field \ {variable.value} :
                    ~is_satisfied(WithValue(r1cs, variable, value))

\* C3: in a satisfied system, another value for one assigned variable makes
\* is_satisfied() false when some enforced constraint has the variable with
\* a non-zero coefficient in exactly one of A, B, C and, when that is A or
\* B, its other factor evaluates to a non-zero field element.
C3_FlipDecisive ==
    is_satisfied(r1cs) =>
        \A variable \in Assigned(r1cs) :
            (\E i \in 1 .. Len(r1cs.constraints) : Decisive(r1cs.constraints[i], variable)) =>
                \A value \in Field \ {variable.value} :
                    ~is_satisfied(WithValue(r1cs, variable, value))

\* A satisfied system holding public1 * private0 = 35 * one: each of the
\* two variables is decisive in it.
C3_Witness ==
    /\ is_satisfied(r1cs)
    /\ num_constraints(r1cs) = 1
    /\ \E variable \in Assigned(r1cs) :
           /\ variable.kind = "Public"
           /\ Decisive(r1cs.constraints[1], variable)
           /\ ~is_satisfied(WithValue(r1cs, variable, 7))

-----------------------------------------------------------------------------
(* Scopes, as the caller's notes (`opened`) tell them.                      *)

\* The names of the open scopes, outermost first.
OpenNames == [i \in 1 .. Len(opened) |-> opened[i].name]

RECURSIVE Joined(_)
\* The names joined by "/", outermost first.
Joined(names) ==
    IF Len(names) = 0 THEN ""
    ELSE IF Len(names) = 1 THEN names[1]
    ELSE Joined(SubSeq(names, 1, Len(names) - 1)) \o "/" \o names[Len(names)]

\* What the in-scope queries and scope() return, out of an observation.
InScopeView(obs) ==
    [f \in {"scope", "num_constants_in_scope", "num_public_in_scope",
            "num_private_in_scope", "num_constraints_in_scope",
            "num_lookup_constraints_in_scope", "num_nonzeros_in_scope",
            "is_satisfied_in_scope"} |-> obs[f]]

\* The in-scope counts, named as the global ones.
InScopeTotals(sys) ==
    [num_constants          |-> num_constants_in_scope(sys),
     num_public             |-> num_public_in_scope(sys),
     num_private            |-> num_private_in_scope(sys),
     num_constraints        |-> num_constraints_in_scope(sys),
     num_lookup_constraints |-> num_lookup_constraints_in_scope(sys),
     num_nonzeros           |-> num_nonzeros_in_scope(sys)]

\* The global counts out of an observation.
TotalsOf(obs) == [f \in DOMAIN NoTotals |-> obs[f]]

\* C4: pop_scope(name) returns an error whenever name is not the name of
\* the innermost open scope (or no scope is open), and a pop_scope that
\* returns an error leaves the instance as it was: the scope stack, the
\* scope path, every in-scope tally and every global count.
C4_PopMismatchStep ==
    last'.op = "pop_scope" =>
        /\ (Len(opened) = 0 \/ opened[Len(opened)].name # last'.arg) => last'.ret = "Err"
        /\ last'.ret = "Err" =>
               /\ r1cs'.counter = r1cs.counter
               /\ Observed(r1cs') = Observed(r1cs)
               /\ r1cs' = r1cs

C4_PopMismatch == [][C4_PopMismatchStep]_vars

\* pop_scope("wrong") has returned an error right after push_scope("a").
C4_Witness ==
    /\ last.op = "pop_scope"
    /\ last.arg = "wrong"
    /\ last.ret = "Err"
    /\ OpenNames = <<"a">>
    /\ scope(r1cs) = "a"
    /\ Totals(r1cs) = TotalsOf(opened[1].before)

\* C5: scope() is the names of the open scopes joined by "/", outermost
\* first ("a/b" after push_scope("a"), push_scope("b"); "a" after
\* pop_scope("b"); the empty path when none is open); every push_scope
\* succeeds, and so does every pop_scope of the innermost open scope's name.
C5_Path ==
    /\ scope(r1cs) = Joined(OpenNames)
    /\ OpenNames = <<"a", "b">> => scope(r1cs) = "a/b"
    /\ OpenNames = <<"a">> => scope(r1cs) = "a"
    /\ OpenNames = <<>> => scope(r1cs) = ""

C5_BalancedStep ==
    /\ last'.op = "push_scope" => last'.ret = "Ok"
    /\ (/\ last'.op = "pop_scope"
        /\ Len(opened) > 0
        /\ last'.arg = opened[Len(opened)].name) =>
            /\ last'.ret = "Ok"
            /\ scope(r1cs') = Joined(SubSeq(OpenNames, 1, Len(opened) - 1))

C6_ScopedCounts ==
    Len(opened) > 0 =>
        LET open == opened[Len(opened)]
            since == TotalsMinus(Totals(r1cs), TotalsOf(open.before))
        IN  /\ InScopeTotals(r1cs) = TotalsMinus(since, open.inner)
            /\ (last.op = "push_scope" /\ last.ret = "Ok") => InScopeTotals(r1cs) = NoTotals
            /\ ~open.nested =>
                   /\ num_constraints_in_scope(r1cs) = since.num_constraints
                   /\ num_constraints(r1cs) =
                          num_constraints_in_scope(r1cs) + open.before.num_constraints

\* One constraint was enforced before the push and one since.
C6_Witness ==
    /\ Len(opened) = 1
    /\ ~opened[1].nested
    /\ opened[1].before.num_constraints = 1
    /\ num_constraints_in_scope(r1cs) = 1
    /\ num_constraints(r1cs) = 2
    /\ num_nonzeros_in_scope(r1cs) # num_nonzeros(r1cs)

\* C7: a pop_scope that returns Ok changes no global count and no stored
\* sequence, and scope() and every in-scope query then return what they
\* returned just before the matching push_scope: nothing of the closed
\* scope is added to its parent's tallies.
C7_PopStep ==
    (last'.op = "pop_scope" /\ last'.ret = "Ok") =>
        /\ Len(opened) > 0
        /\ Totals(r1cs') = Totals(r1cs)
        /\ [r1cs' EXCEPT !.counter = r1cs.counter] = r1cs
        /\ InScopeView(Observed(r1cs')) = InScopeView(opened[Len(opened)].before)

C7_PopRestoresParent == [][C7_PopStep]_vars

\* A scope in which a constraint was enforced has been closed: the
\* constraint counts globally and not in the parent, whose own variable
\* still counts.
C7_Witness ==
    /\ last.op = "pop_scope"
    /\ last.ret = "Ok"
    /\ opened = <<>>
    /\ num_constraints(r1cs) = 1
    /\ num_constraints_in_scope(r1cs) = 0
    /\ num_private_in_scope(r1cs) = 1

\* C8: a freshly created system has num_public() = 1, its one public
\* variable is Public with index 0 and the field's multiplicative identity
\* as value, and every other count is 0 and num_nonzeros() is (0,0,0).
C8_Fresh ==
    last.op = "new" =>
        /\ num_public(r1cs) = 1
        /\ Len(to_public_variables(r1cs)) = 1
        /\ to_public_variables(r1cs)[1].kind = "Public"
        /\ to_public_variables(r1cs)[1].index = 0
        /\ \A x \in Field : FMul(x, to_public_variables(r1cs)[1].value) = x
        /\ num_constants(r1cs) = 0
        /\ num_private(r1cs) = 0
        /\ num_constraints(r1cs) = 0
        /\ num_lookup_constraints(r1cs) = 0
        /\ num_nonzeros(r1cs) = <<0, 0, 0>>

\* The system as the constructor returned it, before any call.
C8_Witness ==
    /\ last.op = "new"
    /\ r1cs = new
    /\ to_private_variables(r1cs) = <<>>

\* C9: the k-th new_public call (k from 0) returns a Public variable with
\* index k + 1 carrying the given value, and increases num_public() by
\* exactly 1, whatever other calls came in between; index 0 is never
\* handed out.
C9_NewPublicStep ==
    last'.op = "new_public" =>
        /\ last'.ret.kind = "Public"
        /\ last'.ret.index = calls.new_public + 1
        /\ last'.ret.index # 0
        /\ last'.ret.value = last'.arg
        /\ num_public(r1cs') = num_public(r1cs) + 1

C9_NewPublic == [][C9_NewPublicStep]_vars

\* The second new_public call (k = 1) has returned index 2, with a
\* new_private call made before it.
C9_Witness ==
    /\ last.op = "new_public"
    /\ calls.new_public = 2
    /\ calls.new_private = 1
    /\ last.ret.index = 2
    /\ num_public(r1cs) = 3

\* C10: the k-th new_private call (k from 0) returns a Private variable
\* with index k carrying the given value, and num_private() always equals
\* the number of new_private calls made so far, whatever other calls came
\* in between.
C10_NewPrivateStep ==
    last'.op = "new_private" =>
        /\ last'.ret.kind = "Private"
        /\ last'.ret.index = calls.new_private
        /\ last'.ret.value = last'.arg

C10_NewPrivate == [](num_private(r1cs) = calls.new_private) /\ [][C10_NewPrivateStep]_vars

\* The second new_private call (k = 1) has returned index 1, with a
\* new_public call made before it.
C10_Witness ==
    /\ last.op = "new_private"
    /\ calls.new_private = 2
    /\ calls.new_public = 1
    /\ last.ret.index = 1
    /\ num_private(r1cs) = 2

\* C11: add_lookup_table(t) appends t to the tables and changes nothing
\* else, no count among them; enforce_lookup(lc) increases
\* num_lookup_constraints() by exactly 1, appends lc to the lookup
\* constraints and leaves num_constraints(), num_constants(), num_public()
\* and num_private() unchanged.
C11_LookupStep ==
    /\ last'.op = "add_lookup_table" =>
           /\ r1cs'.tables = Append(r1cs.tables, last'.arg)
           /\ [r1cs' EXCEPT !.tables = r1cs.tables] = r1cs
           /\ Totals(r1cs') = Totals(r1cs)
           /\ Observed(r1cs') = Observed(r1cs)
    /\ last'.op = "enforce_lookup" =>
           /\ num_lookup_constraints(r1cs') = num_lookup_constraints(r1cs) + 1
           /\ to_lookup_constraints(r1cs') = Append(to_lookup_constraints(r1cs), last'.arg)
           /\ num_constraints(r1cs') = num_constraints(r1cs)
           /\ to_constraints(r1cs') = to_constraints(r1cs)
           /\ num_constants(r1cs') = num_constants(r1cs)
           /\ num_public(r1cs') = num_public(r1cs)
           /\ num_private(r1cs') = num_private(r1cs)

C11_LookupPath == [][C11_LookupStep]_vars

\* enforce_lookup has returned on a system that holds a table and a plain
\* constraint.
C11_Witness ==
    /\ last.op = "enforce_lookup"
    /\ Len(r1cs.tables) = 1
    /\ num_lookup_constraints(r1cs) = 1
    /\ num_constraints(r1cs) = 1

\* The count that a call of `op` adds 1 to, globally and in scope.
CountOf(op) ==
    CASE op = "new_constant" -> "num_constants"
      [] op = "new_public"   -> "num_public"
      [] op = "new_private"  -> "num_private"

\* C12: each of new_constant, new_public, new_private returns a variable of
\* its kind (it cannot fail), adds 1 to its own global count and to the
\* matching in-scope count of the current frame, and changes no other
\* global or in-scope count, no constraint or lookup-constraint sequence
\* and no nonzero triple.
C12_AllocationStep ==
    last'.op \in {"new_constant", "new_public", "new_private"} =>
        /\ last'.ret \in {Constant(last'.arg),
                          Public(Len(r1cs.public), last'.arg),
                          Private(Len(r1cs.private), last'.arg)}
        /\ last'.op = "new_constant" => last'.ret.kind = "Constant"
        /\ last'.op = "new_public" => last'.ret.kind = "Public"
        /\ last'.op = "new_private" => last'.ret.kind = "Private"
        /\ Totals(r1cs') = [Totals(r1cs) EXCEPT ![CountOf(last'.op)] = @ + 1]
        /\ InScopeTotals(r1cs') = [InScopeTotals(r1cs) EXCEPT ![CountOf(last'.op)] = @ + 1]
        /\ to_constraints(r1cs') = to_constraints(r1cs)
        /\ to_lookup_constraints(r1cs') = to_lookup_constraints(r1cs)
        /\ scope(r1cs') = scope(r1cs)

C12_Allocation == [][C12_AllocationStep]_vars

\* new_constant has returned inside a scope, after a constant was created
\* outside of it.
C12_Witness ==
    /\ last.op = "new_constant"
    /\ Len(opened) = 1
    /\ num_constants(r1cs) = 2
    /\ num_constants_in_scope(r1cs) = 1

\* s is an initial part of t.
IsPrefix(s, t) == Len(s) <= Len(t) /\ SubSeq(t, 1, Len(s)) = s

\* C13: no call (push_scope, pop_scope that succeeds or fails, and the
\* others) makes a global count or a component of num_nonzeros() smaller,
\* and every stored constant, variable, constraint and lookup constraint
\* stays at its position in its sequence.
C13_GrowthStep ==
    /\ num_constants(r1cs') >= num_constants(r1cs)
    /\ num_public(r1cs') >= num_public(r1cs)
    /\ num_private(r1cs') >= num_private(r1cs)
    /\ num_constraints(r1cs') >= num_constraints(r1cs)
    /\ num_lookup_constraints(r1cs') >= num_lookup_constraints(r1cs)
    /\ \A i \in 1 .. 3 : num_nonzeros(r1cs')[i] >= num_nonzeros(r1cs)[i]
    /\ IsPrefix(r1cs.constants, r1cs'.constants)
    /\ IsPrefix(to_public_variables(r1cs), to_public_variables(r1cs'))
    /\ IsPrefix(to_private_variables(r1cs), to_private_variables(r1cs'))
    /\ IsPrefix(to_constraints(r1cs), to_constraints(r1cs'))
    /\ IsPrefix(to_lookup_constraints(r1cs), to_lookup_constraints(r1cs'))
    /\ IsPrefix(r1cs.tables, r1cs'.tables)

C13_OnlyGrows == [][C13_GrowthStep]_vars

\* A scope has been closed on a system that holds two different
\* constraints, the second one enforced in that scope.
C13_Witness ==
    /\ last.op = "pop_scope"
    /\ last.ret = "Ok"
    /\ num_constraints(r1cs) = 2
    /\ to_constraints(r1cs)[1] # to_constraints(r1cs)[2]
    /\ num_constraints_in_scope(r1cs) = 1

\* The constraints handed to enforce while the scope that is innermost now
\* was the innermost.
EnforcedInScope == calls.scoped[Len(calls.scoped)]

\* C14: is_satisfied_in_scope() is true exactly when every constraint
\* enforced while the innermost open scope was the innermost is satisfied;
\* those enforced before its push or in scopes since closed play no part,
\* so it can be true while is_satisfied() is false.
C14_IsSatisfiedInScope ==
    /\ is_satisfied_in_scope(r1cs) <=>
           \A i \in 1 .. Len(EnforcedInScope) : constraint_is_satisfied(EnforcedInScope[i])
    /\ EnforcedInScope = <<>> => is_satisfied_in_scope(r1cs)

\* An unsatisfied constraint was enforced before the push and a satisfied
\* one since: true in scope, false for the system.
C14_Witness ==
    /\ Len(opened) = 1
    /\ Len(calls.enforce) = 2
    /\ Len(EnforcedInScope) = 1
    /\ ~constraint_is_satisfied(calls.enforce[1])
    /\ is_satisfied_in_scope(r1cs)
    /\ ~is_satisfied(r1cs)

\* public1 * private0 = 35 * public0, for public1 = 5 and private0 = 7.
EndToEndConstraint ==
    [a |-> {<<Public(1, 5), 1>>},
     b |-> {<<Private(0, 7), 1>>},
     c |-> {<<Public(0, One), 35>>}]

\* new_public(5), new_private(7) and enforce(EndToEndConstraint) are the
\* allocations and enforcements made on the system since it was created.
EndToEndDone ==
    /\ calls.new_public = 1
    /\ calls.new_private = 1
    /\ calls.enforce = <<EndToEndConstraint>>
    /\ to_public_variables(r1cs)[Len(to_public_variables(r1cs))].value = 5
    /\ to_private_variables(r1cs)[Len(to_private_variables(r1cs))].value = 7
    /\ r1cs.constants = <<>>
    /\ to_lookup_constraints(r1cs) = <<>>

\* C15: on a fresh system, after new_public(5), new_private(7) and enforce
\* of A = public1, B = private0, C = 35 * public0, is_satisfied() is true,
\* num_constraints() is 1 and num_nonzeros() is (1,1,1).
C15_EndToEnd ==
    EndToEndDone =>
        /\ is_satisfied(r1cs)
        /\ num_constraints(r1cs) = 1
        /\ num_nonzeros(r1cs) = <<1, 1, 1>>

\* The enforce call of the scenario has just returned.
C15_Witness ==
    /\ EndToEndDone
    /\ last.op = "enforce"
    /\ to_constraints(r1cs) = <<EndToEndConstraint>>
    /\ opened = <<>>

RECURSIVE SumNonzeros(_)
\* The component-wise sum of num_nonzeros() over the sequence.
SumNonzeros(seq) ==
    IF Len(seq) = 0 THEN <<0, 0, 0>>
    ELSE TripleAdd(constraint_num_nonzeros(seq[1]), SumNonzeros(Tail(seq)))

\* C17: num_nonzeros() is the component-wise sum of num_nonzeros() over all
\* enforced constraints plus all enforced lookup constraints:
\* enforce_lookup(lc) adds lc.num_nonzeros() to the triple enforce uses,
\* and to the current frame's in-scope triple.
C17_Sum ==
    num_nonzeros(r1cs) =
        TripleAdd(SumNonzeros(calls.enforce), SumNonzeros(to_lookup_constraints(r1cs)))

C17_LookupStep ==
    last'.op = "enforce_lookup" =>
        /\ num_nonzeros(r1cs') =
               TripleAdd(num_nonzeros(r1cs), constraint_num_nonzeros(last'.arg))
        /\ num_nonzeros_in_scope(r1cs') =
               TripleAdd(num_nonzeros_in_scope(r1cs), constraint_num_nonzeros(last'.arg))

C17_SharedNonzeros == [](C17_Sum) /\ [][C17_LookupStep]_vars

\* enforce_lookup has returned on a system that holds a plain constraint
\* with non-zero terms; the lookup constraint has non-zero terms too.
C17_Witness ==
    /\ last.op = "enforce_lookup"
    /\ num_constraints(r1cs) = 1
    /\ num_lookup_constraints(r1cs) = 1
    /\ constraint_num_nonzeros(last.arg) = <<1, 1, 0>>
    /\ num_nonzeros(r1cs)[1] >= 2

\* C18: the index of a variable is its position in its sequence:
\* to_public_variables()[i] is Public with index i, to_private_variables()[j]
\* is Private with index j (positions from 0), so no two public and no two
\* private variables share an index; the public variable at position 0
\* has the value one.
C18_IndexIsPosition ==
    /\ \A i \in 1 .. Len(to_public_variables(r1cs)) :
           /\ to_public_variables(r1cs)[i].kind = "Public"
           /\ to_public_variables(r1cs)[i].index = i - 1
    /\ \A j \in 1 .. Len(to_private_variables(r1cs)) :
           /\ to_private_variables(r1cs)[j].kind = "Private"
           /\ to_private_variables(r1cs)[j].index = j - 1
    /\ \A i, j \in 1 .. Len(to_public_variables(r1cs)) :
           i # j => to_public_variables(r1cs)[i].index # to_public_variables(r1cs)[j].index
    /\ \A i, j \in 1 .. Len(to_private_variables(r1cs)) :
           i # j => to_private_variables(r1cs)[i].index # to_private_variables(r1cs)[j].index
    /\ Len(to_public_variables(r1cs)) = num_public(r1cs)
    /\ Len(to_private_variables(r1cs)) = num_private(r1cs)
    /\ to_public_variables(r1cs)[1].value = One

\* Two public variables besides the implicit one, with the same value, and
\* a private one.
C18_Witness ==
    /\ num_public(r1cs) = 3
    /\ num_private(r1cs) = 1
    /\ to_public_variables(r1cs)[2].value = to_public_variables(r1cs)[3].value

\* C19: the implicit public variable is counted in no scope frame: on a
\* fresh system num_public_in_scope() = 0 while num_public() = 1, and as
\* long as push_scope has not succeeded num_public() =
\* num_public_in_scope() + 1 while num_constants(), num_private(),
\* num_constraints() and num_lookup_constraints() equal their in-scope
\* counterparts.
C19_ImplicitOne ==
    /\ last.op = "new" =>
           /\ num_public_in_scope(r1cs) = 0
           /\ num_public(r1cs) = 1
    /\ ~calls.pushed =>
           /\ num_public(r1cs) = num_public_in_scope(r1cs) + 1
           /\ num_constants(r1cs) = num_constants_in_scope(r1cs)
           /\ num_private(r1cs) = num_private_in_scope(r1cs)
           /\ num_constraints(r1cs) = num_constraints_in_scope(r1cs)
           /\ num_lookup_constraints(r1cs) = num_lookup_constraints_in_scope(r1cs)

\* No scope was ever opened, and a public variable, a private variable and
\* a constraint have been added.
C19_Witness ==
    /\ ~calls.pushed
    /\ num_public(r1cs) = 2
    /\ num_public_in_scope(r1cs) = 1
    /\ num_private(r1cs) = 1
    /\ num_constraints(r1cs) = 1

\* The three checks of the commit instruction's evaluate.
Checked ==
    /\ Len(instruction.operands) = 2
    /\ registers[instruction.operands[2]] = Literal("Scalar", "")
    /\ instruction.variant \in 0 .. 5

\* C20: the commit instruction's evaluate stores into the destination
\* register only when the instruction has exactly 2 operands, the second
\* loaded operand is a scalar literal and the variant is in 0..=5; when a
\* check fails it returns an error and stores nothing; what it stores is a
\* Field literal for the variants 0-3 and a Group literal for 4-5.
C20_CommitEvaluate ==
    /\ evaluated.stores # <<>> => Checked
    /\ registers[Destination] # Undefined => Checked
    /\ (evaluated.ret # "Pending" /\ ~Checked) =>
           /\ evaluated.ret = "Err"
           /\ evaluated.stores = <<>>
           /\ registers[Destination] = Undefined
    /\ Len(evaluated.stores) <= 1
    /\ \A i \in 1 .. Len(evaluated.stores) :
           /\ evaluated.stores[i].register = instruction.destination
           /\ evaluated.stores[i].value.plaintext = "Literal"
           /\ instruction.variant \in 0 .. 3 => evaluated.stores[i].value.literal = "Field"
           /\ instruction.variant \in 4 .. 5 => evaluated.stores[i].value.literal = "Group"
    /\ evaluated.ret = "Ok" =>
           /\ Len(evaluated.stores) = 1
           /\ registers[Destination] = evaluated.stores[1].value

\* A Pedersen commitment of a struct under a scalar randomizer was stored.
C20_Witness ==
    /\ evaluated.ret = "Ok"
    /\ instruction.variant = 4
    /\ Len(instruction.operands) = 2
    /\ registers[instruction.operands[1]] = Struct
    /\ registers[instruction.operands[2]] = Literal("Scalar", "")
    /\ registers[Destination] = Literal("Group", "commit_ped64")

====
